---- MODULE Spec2Model ----
(***************************************************************************)
(* fitbit-backup: the three variants of the weight backup program.         *)
(*   "cacher"  - src/backup.go (OAuth2, cacherTransport, authorize)        *)
(*   "filesrc" - src/unnamed/part_000:1-227 (OAuth2, FileTokenSource)      *)
(*   "oauth1"  - src/unnamed/part_000:229-397 (OAuth 1.0a)                 *)
(* Time is counted in ticks, TicksPerDay ticks to a day; a date is a day   *)
(* number.  The clock advances only while the program waits (an HTTP       *)
(* request, an interactive authorization).                                 *)
(***************************************************************************)
EXTENDS Integers, Sequences, FiniteSets, TLC

\* ------------------------------------------------------------------ bounds
TicksPerDay == 2
\* the day the run starts on (the run starts one tick after its midnight)
StartDay == 62
\* how many ticks the clock may advance during one run
MaxTicks == 2
\* how many calls of FileTokenSource.Token the function-level specification makes
MaxCalls == 2
\* how many callback requests reach the listener of authorize
MaxCallbacks == 2

\* --------------------------------------------------------- program constants
\* for tries < 2
MaxTries == 2
\* endDate.Add(-24 * time.Hour)
BackDays == 1
\* endDate.Add(30 * 24 * time.Hour), and the "30d" period of the request
WindowDays == 30
\* entry.Time[0:5]
TimeCut == 5
\* the lines authorize prints (backup.go), the AuthCode callback prints
\* (FileTokenSource variant) and the re-authorization prints (OAuth 1.0a)
AuthorizeLines == 2
AuthCodeLines == 3
OAuth1Lines == 3

StartTick == StartDay * TicksPerDay + 1

\* ------------------------------------------------------------------ tokens
\* oauth2.Token: AccessToken, RefreshToken, Expiry (0 is the zero time)
NoToken == [at |-> "", rt |-> "", exp |-> 0]

\* oauth2.Token.expired: a zero Expiry never expires
Expired(t, n) == t.exp # 0 /\ t.exp < n

\* oauth2.Token.Valid
Valid(t, n) == t.at # "" /\ ~Expired(t, n)

\* the tokens the token endpoint may answer with at time n (code exchange):
\* without expiry, expiring with the next tick, and already expired
ServerTokens(n) ==
  { [at |-> "a1", rt |-> "r1", exp |-> 0],
    [at |-> "a2", rt |-> "r2", exp |-> 0],
    [at |-> "a1", rt |-> "r2", exp |-> n],
    [at |-> "a2", rt |-> "",   exp |-> n - 1] }

\* the tokens a refresh with refresh token r may answer with: an answer
\* without refresh_token keeps the one that was sent
RefreshTokens(r, n) ==
  { [t EXCEPT !.rt = IF t.rt = "" THEN r ELSE t.rt] : t \in ServerTokens(n) }

\* ------------------------------------------------------------- cache file
Missing    == [kind |-> "missing",    tok |-> NoToken]
Unreadable == [kind |-> "unreadable", tok |-> NoToken]
Garbage    == [kind |-> "garbage",    tok |-> NoToken]
TokenFile(t) == [kind |-> "token", tok |-> t]

\* what the cache file may hold when a run starts
StartFiles ==
  { Missing, Unreadable, Garbage,
    TokenFile([at |-> "a1", rt |-> "r1", exp |-> 0]),
    TokenFile([at |-> "a1", rt |-> "",   exp |-> StartTick]),
    TokenFile([at |-> "a1", rt |-> "r1", exp |-> StartTick - 1]),
    TokenFile([at |-> "a1", rt |-> "",   exp |-> StartTick - 1]),
    TokenFile(NoToken) }

\* ioutil.WriteFile(path, bytes, 0600): the file after the call and whether
\* the call succeeded; a failed write leaves the file as it was or truncated
\* (which no longer decodes). With an empty path the file cannot be created.
WriteFile(f, t, pathSet) ==
  IF ~pathSet THEN { [file |-> f, ok |-> FALSE] }
  ELSE { [file |-> TokenFile(t), ok |-> TRUE],
         [file |-> f, ok |-> FALSE],
         [file |-> Garbage, ok |-> FALSE] }


\* -------------------------------------------- backup.go: the token source
\* config.TokenSource(ctx, token).Token(): the token held while it is valid,
\* else a refresh with its refresh token; the outcomes at time n
SourceToken(t, n) ==
  IF Valid(t, n) THEN { [ok |-> TRUE, tok |-> t] }
  ELSE IF t.rt = "" THEN { [ok |-> FALSE, tok |-> t] }
  ELSE { [ok |-> FALSE, tok |-> t] }
       \cup { [ok |-> TRUE, tok |-> nt] : nt \in RefreshTokens(t.rt, n) }

\* the ticks a wait starting at time n may take
Waits(n) == { dt \in 0..1 : n + dt <= StartTick + MaxTicks }

RTOut(res, f, s, n, post, wrote, used) ==
  [res |-> res, file |-> f, src |-> s, now |-> n, post |-> post, wrote |-> wrote,
   used |-> used, authd |-> 0]

\* (variation for C7: only the access tokens are compared)
SameAccessToken(f, t) ==
  f.kind = "token" /\ f.tok.at = t.at

\* the comparison of the cached token with the current one
SameTokens(f, t) ==
  f.kind = "token" /\ f.tok.at = t.at /\ f.tok.rt = t.rt

\* (variation for C11: the token is written without looking at the cached one)
RoundTripStoreAlways(f, s, n, pathSet, used) ==
  UNION { IF ~o3.ok THEN { RTOut("resp", f, o3.tok, n, FALSE, FALSE, used) }
          ELSE { RTOut(IF w.ok THEN "resp" ELSE "err", w.file, o3.tok, n, TRUE, TRUE, used)
                 : w \in WriteFile(f, o3.tok, pathSet) }
        : o3 \in SourceToken(s, n) }

\* RoundTrip from the token lookup after the request on: the response came
\* back at time n with the source holding s
RoundTripStore(f, s, n, pathSet, used) ==
  UNION { IF ~o3.ok THEN { RTOut("resp", f, o3.tok, n, FALSE, FALSE, used) }
          ELSE IF SameTokens(f, o3.tok)
               THEN { RTOut("resp", f, o3.tok, n, TRUE, FALSE, used) }
          ELSE { RTOut(IF w.ok THEN "resp" ELSE "err", w.file, o3.tok, n, TRUE, TRUE, used)
                 : w \in WriteFile(f, o3.tok, pathSet) }
        : o3 \in SourceToken(s, n) }

\* cacherTransport.RoundTrip with the cache file f, the source holding s, at
\* time n: the results "resp" (a response), "err" (another error) and
\* "expired" (errExpiredToken), with the file, the source and the clock after
RoundTrip(f, s, n, pathSet) ==
  IF f.kind \in {"unreadable", "garbage"}
  THEN { RTOut("err", f, s, n, FALSE, FALSE, "") }
  ELSE UNION {
    IF ~o1.ok THEN { RTOut("expired", f, o1.tok, n, FALSE, FALSE, "") }
    ELSE UNION {
      IF ~o2.ok THEN { RTOut("err", f, o2.tok, n, FALSE, FALSE, "") }
      ELSE UNION { { RTOut("err", f, o2.tok, n + dt, FALSE, FALSE, o2.tok.at) }
                   \cup RoundTripStore(f, o2.tok, n + dt, pathSet, o2.tok.at)
                 : dt \in Waits(n) }
      : o2 \in SourceToken(o1.tok, n) }
    : o1 \in SourceToken(s, n) }

\* ------------------------------------- FileTokenSource (part_000:50-98)
\* (variation for C6: a token read from the file is never taken as valid)
cachedTokenNeverValid(f, n) ==
  CASE f.kind \in {"missing", "unreadable"} -> "read"
    [] f.kind = "garbage" -> "decode"
    [] OTHER -> "expired"

\* cachedToken(cacheFile) at time n: the error ("none" when the token is
\* returned)
cachedToken(f, n) ==
  CASE f.kind \in {"missing", "unreadable"} -> "read"
    [] f.kind = "garbage" -> "decode"
    [] f.kind = "token" /\ Valid(f.tok, n) -> "none"
    [] f.kind = "token" /\ ~Valid(f.tok, n) /\ n > f.tok.exp -> "expired"
    [] OTHER -> "invalid"

TokOut(res, t, f, n, authCode, exchange, wrote) ==
  [res |-> res, tok |-> t, file |-> f, now |-> n,
   authCode |-> authCode, exchange |-> exchange, wrote |-> wrote]

\* FileTokenSource.Token from the AuthCode call on
TokenExchange(f, n, pathSet) ==
  UNION { { TokOut("exchangeErr", NoToken, f, n + dt, TRUE, TRUE, FALSE) }
          \cup UNION {
            IF ~pathSet THEN { TokOut("token", t, f, n + dt, TRUE, TRUE, FALSE) }
            ELSE { TokOut(IF w.ok THEN "token" ELSE "cacheErr",
                          IF w.ok THEN t ELSE NoToken, w.file, n + dt, TRUE, TRUE, TRUE)
                   : w \in WriteFile(f, t, pathSet) }
            : t \in ServerTokens(n + dt) }
        : dt \in Waits(n) }

\* (variation for C9: AuthCode is checked before the cache is read)
TokenAuthCodeFirst(f, n, pathSet, authCodeSet) ==
  IF ~authCodeSet
  THEN { TokOut("ErrNoAuthCode", NoToken, f, n, FALSE, FALSE, FALSE) }
  ELSE IF pathSet /\ cachedToken(f, n) = "none"
  THEN { TokOut("token", f.tok, f, n, FALSE, FALSE, FALSE) }
  ELSE TokenExchange(f, n, pathSet)

\* FileTokenSource.Token with CacheFile set or not (pathSet) and AuthCode set
\* or nil (authCodeSet), the cache file holding f, at time n
Token(f, n, pathSet, authCodeSet) ==
  IF pathSet /\ cachedToken(f, n) = "none"
  THEN { TokOut("token", f.tok, f, n, FALSE, FALSE, FALSE) }
  ELSE IF ~authCodeSet
  THEN { TokOut("ErrNoAuthCode", NoToken, f, n, FALSE, FALSE, FALSE) }
  ELSE TokenExchange(f, n, pathSet)

\* oauth2.ReuseTokenSource(nil, src).Token(): the token held while it is
\* valid, else src.Token()
ReuseToken(s, f, n, pathSet) ==
  IF Valid(s, n) THEN { TokOut("token", s, f, n, FALSE, FALSE, FALSE) }
  ELSE Token(f, n, pathSet, TRUE)


\* ------------------------------------------------------------ API replies
\* a time-series reply body: decodable or not, its number of entries and the
\* dateTime of the first one (-1: a text time.Parse rejects)
TSBody(dec, n, first) == [dec |-> dec, n |-> n, first |-> first]

\* first days that put the end dates before, on and after the clock's values
FirstDates ==
  { StartDay - 2 * WindowDays + 1, StartDay - WindowDays + 1,
    StartDay - WindowDays + 2, StartDay + 1, StartDay + 2, StartDay + 3 }

TSBodies ==
  { TSBody(FALSE, 0, 0), TSBody(TRUE, 0, 0), TSBody(TRUE, 1, -1) }
  \cup { TSBody(TRUE, 1, d) : d \in FirstDates }

\* an entry of a body-weight log reply: date (a day), time (its characters)
\* and weight (in hundredths)
E1 == [date |-> 10, time |-> <<"1","8",":","0","0",":","0","0">>, weight |-> 6590]
E2 == [date |-> 10, time |-> <<"2","3",":","5","9",":","5","9">>, weight |-> 6534]
EShort == [date |-> 11, time |-> <<"7",":","0","0">>, weight |-> 6600]

\* a body-weight log reply body: decodable or not, with the key "weight" or
\* without it, and the entries under the key
WBody(dec, key, entries) == [dec |-> dec, key |-> key, entries |-> entries]

WBodies ==
  { WBody(FALSE, FALSE, <<>>), WBody(TRUE, FALSE, <<>>), WBody(TRUE, TRUE, <<>>),
    WBody(TRUE, TRUE, <<E2, E1>>), WBody(TRUE, TRUE, <<E2, EShort>>) }

\* time.Parse("2006-01-02", s): the instant of the day's midnight
Parse(day) == day * TicksPerDay

\* endDate.Format("2006-01-02"): the day an instant lies in
Format(t) == t \div TicksPerDay

\* "%.1f" of a weight given in hundredths: tenths, rounded to the nearest
Tenths(w) == (w + 5) \div 10

\* fmt.Printf("%s %s %.1f\n", entry.Date, entry.Time[0:5], entry.Weight)
Line(e) == <<e.date, SubSeq(e.time, 1, TimeCut), Tenths(e.weight)>>

\* the index of the first entry whose Time[0:5] is out of range, 0 if none
RECURSIVE FirstShort(_, _)
FirstShort(es, i) ==
  IF i > Len(es) THEN 0
  ELSE IF Len(es[i].time) < TimeCut THEN i
  ELSE FirstShort(es, i + 1)

\* the lines the range loop prints for the slice es, up to a panic
Lines(es) ==
  LET k == FirstShort(es, 1)
      n == IF k = 0 THEN Len(es) ELSE k - 1
  IN  [i \in 1..n |-> Line(es[i])]

\* ------------------------------------------------------------------- state
VARIABLES
  variant,    \* which program runs
  pc,         \* where main is
  now,        \* the clock
  pathSet,    \* -oauth2_cache_path given
  file,       \* the cache file
  file0,      \* the cache file when the run started
  src,        \* the token the client's token source holds (oauth1: accessToken)
  tries,      \* tries
  response,   \* response: the last time-series response
  endDate,    \* endDate
  weights,    \* weights.Weights
  output,     \* the lines the window loop has printed
  prompts,    \* the prompt lines printed for interactive authorization
  auths,      \* interactive authorizations started
  reauths,    \* of these, the ones started because a request failed
  registered, \* http.HandleFunc("/") registrations
  listeners,  \* listener goroutines started
  authFor,    \* what authorize was called for
  gets,       \* the GETs issued, with their results
  replies,    \* the bodies of the window replies decoded
  last,       \* the result of the last GET
  failure,    \* why the process ended
  call,       \* the last FileTokenSource.Token call (function-level specification)
  auth        \* the goroutines of authorize (goroutine-level specification)

vars ==
  <<variant, pc, now, pathSet, file, file0, src, tries, response, endDate,
    weights, output, prompts, auths, reauths, registered, listeners, authFor,
    gets, replies, last, failure, call, auth>>

NoResponse == [nil |-> TRUE, id |-> 0, body |-> TSBody(FALSE, 0, 0)]
NoLast == RTOut("none", Missing, NoToken, 0, FALSE, FALSE, "")
NoCall == [n |-> 0, pathSet |-> FALSE, authCodeSet |-> FALSE, before |-> Missing,
           at |-> 0, out |-> TokOut("none", NoToken, Missing, 0, FALSE, FALSE, FALSE)]

\* authorize: the invocations of the callback handler, the listener goroutine
\* and the result the select received
Handlers == 1..MaxCallbacks
IdleHandler == [pc |-> "idle", code |-> FALSE, exch |-> "none", tok |-> NoToken]
NoResult == [kind |-> "none", tok |-> NoToken, from |-> 0]
NoAuth == [hs |-> [h \in Handlers |-> IdleHandler], lpc |-> "serving",
           result |-> NoResult]

Variants == {"cacher", "filesrc", "oauth1"}

Init ==
  /\ variant \in Variants
  /\ pc = "start"
  /\ now = StartTick
  /\ pathSet \in (IF variant = "oauth1" THEN {FALSE} ELSE BOOLEAN)
  /\ file \in (IF pathSet THEN StartFiles ELSE {Missing})
  /\ file0 = file
  /\ src = IF variant = "oauth1" THEN [at |-> "flag", rt |-> "", exp |-> 0] ELSE NoToken
  /\ tries = 0
  /\ response = NoResponse
  /\ endDate = 0
  /\ weights = <<>>
  /\ output = <<>>
  /\ prompts = 0
  /\ auths = 0
  /\ reauths = 0
  /\ registered = 0
  /\ listeners = 0
  /\ authFor = "none"
  /\ gets = <<>>
  /\ replies = <<>>
  /\ last = NoLast
  /\ failure = "none"
  /\ call = NoCall
  /\ auth = NoAuth


\* ----------------------------------------------------------------- c.Get
\* c.Get in backup.go: http.Client over cacherTransport
GetCacher == RoundTrip(file, src, now, pathSet)

\* c.Get in the FileTokenSource variant: oauth2.Transport asks the token
\* source, then sends the request
GetFileSrc ==
  UNION {
    IF k.res # "token"
    THEN { [RTOut("err", k.file, src, k.now, FALSE, k.wrote, "")
              EXCEPT !.authd = IF k.authCode THEN 1 ELSE 0] }
    ELSE { [RTOut(r, k.file, k.tok, k.now + dt, FALSE, k.wrote, k.tok.at)
              EXCEPT !.authd = IF k.authCode THEN 1 ELSE 0]
           : r \in {"err", "resp"}, dt \in Waits(k.now) }
    : k \in ReuseToken(src, file, now, pathSet) }

\* c.Get in the OAuth 1.0a variant: a response, an error with a 401 or
\* another status, or an error without a response
GetOAuth1 ==
  { RTOut(r, file, src, now + dt, FALSE, FALSE, src.at)
    : r \in {"resp", "401", "other", "nil"}, dt \in Waits(now) }

Get ==
  CASE variant = "cacher" -> GetCacher
    [] variant = "filesrc" -> GetFileSrc
    [] OTHER -> GetOAuth1

\* the effect of a GET with outcome o on the token source, the cache file,
\* the clock and the prompts, and its record: the result, the credential
\* sent, how the decoding of the reply went ("none": not decoded), and the
\* lines printed and authorizations started when it returned
ApplyGet(kind, date, o, dec) ==
  /\ file' = o.file
  /\ src' = o.src
  /\ now' = o.now
  /\ last' = o
  /\ auths' = auths + o.authd
  /\ prompts' = prompts + AuthCodeLines * o.authd
  /\ gets' = Append(gets, [kind |-> kind, date |-> date, res |-> o.res,
                           used |-> o.used, dec |-> dec, out |-> Len(output),
                           pr |-> prompts + AuthCodeLines * o.authd,
                           au |-> auths + o.authd])

\* log.Fatal, a runtime panic
Fatal(why) == pc' = "fatal" /\ failure' = why
Panic(why) == pc' = "panic" /\ failure' = why

\* ------------------------------------------------------------------- main
\* flag.Parse and the check of the required flags
Start ==
  /\ pc = "start"
  /\ \E flagsOk \in BOOLEAN :
       IF flagsOk
       THEN /\ pc' = IF variant = "cacher" THEN "load" ELSE "tries"
            /\ failure' = failure
       ELSE Fatal("flags")
  /\ UNCHANGED <<variant, now, pathSet, file, file0, src, tries, response, endDate,
                 weights, output, prompts, auths, reauths, registered, listeners,
                 authFor, gets, replies, last, call, auth>>

\* backup.go: token, err := tokenFromFile(*cachePath) ... c := client(conf, token)
LoadToken ==
  /\ pc = "load"
  /\ CASE file.kind = "token" ->
            /\ src' = file.tok
            /\ pc' = "probe"
            /\ UNCHANGED <<authFor, failure>>
       [] file.kind = "missing" ->
            /\ pc' = "authorize"
            /\ authFor' = "initial"
            /\ UNCHANGED <<src, failure>>
       [] OTHER ->
            /\ Fatal("load")
            /\ UNCHANGED <<src, authFor>>
  /\ UNCHANGED <<variant, now, pathSet, file, file0, tries, response, endDate,
                 weights, output, prompts, auths, reauths, registered, listeners,
                 gets, replies, last, call, auth>>

\* (variation for C8: every call of authorize registers on a mux of its own)
NeverRegistered(r) == FALSE

\* http.HandleFunc("/", ...) on the default mux that has had r registrations
\* of "/": a pattern that is registered already makes it panic
AlreadyRegistered(r) == r > 0

\* authorize up to the select: the handler for "/" is registered (a second
\* registration of the pattern panics), the listener goroutine is started
\* and the URL is printed
AuthorizeCall ==
  /\ pc = "authorize"
  /\ auths' = auths + 1
  /\ reauths' = IF authFor = "reauth" THEN reauths + 1 ELSE reauths
  /\ IF AlreadyRegistered(registered)
     THEN /\ Panic("register")
          /\ UNCHANGED <<registered, listeners, prompts>>
     ELSE /\ registered' = registered + 1
          /\ listeners' = listeners + 1
          /\ prompts' = prompts + AuthorizeLines
          /\ pc' = "select"
          /\ failure' = failure
  /\ UNCHANGED <<variant, now, pathSet, file, file0, src, tries, response, endDate,
                 weights, output, authFor, gets, replies, last, call, auth>>

\* the select of authorize returns and main goes on: an error (of the code
\* exchange or of the listener) is fatal, a token makes the client
AuthorizeReturn ==
  /\ pc = "select"
  /\ \E dt \in Waits(now) :
       /\ now' = now + dt
       /\ \E ok \in BOOLEAN, t \in ServerTokens(now + dt) :
            IF ok
            THEN /\ src' = t
                 /\ pc' = IF authFor = "initial" THEN "probe" ELSE "tries"
                 /\ failure' = failure
            ELSE /\ Fatal("auth")
                 /\ src' = src
  /\ UNCHANGED <<variant, pathSet, file, file0, tries, response, endDate, weights,
                 output, prompts, auths, reauths, registered, listeners, authFor,
                 gets, replies, last, call, auth>>

\* (variation for C2: every error of the probe request leads to authorize)
ProbeNextAnyError(res) ==
  IF res = "resp" THEN "tries" ELSE "authorize"

\* where main goes after the probe request, by its result: only
\* errExpiredToken leads to authorize
ProbeNext(res) ==
  CASE res = "resp" -> "tries"
    [] res = "expired" -> "authorize"
    [] OTHER -> "fatal"

\* backup.go: the request sent just to see if it errors
Probe ==
  /\ pc = "probe"
  /\ \E o \in Get :
       /\ ApplyGet("probe", 0, o, "none")
       /\ pc' = ProbeNext(o.res)
       /\ authFor' = IF pc' = "authorize" THEN "reauth" ELSE authFor
       /\ failure' = IF pc' = "fatal" THEN "get" ELSE failure
  /\ UNCHANGED <<variant, pathSet, file0, tries, response, endDate, weights, output,
                 reauths, registered, listeners, replies, call, auth>>


\* the tries loop: one pass of for tries < 2 { response, err = c.Get(...) ... }
TimeSeriesGet ==
  /\ pc = "tries"
  /\ tries < MaxTries
  /\ tries' = tries + 1
  /\ \E o \in Get :
       /\ ApplyGet("ts", 0, o, "none")
       /\ CASE o.res = "resp" ->
                 /\ \E b \in TSBodies :
                      response' = [nil |-> FALSE, id |-> Len(gets) + 1, body |-> b]
                 /\ pc' = "tries"
                 /\ failure' = failure
            [] o.res = "nil" /\ variant = "oauth1" /\ tries + 1 = 1 ->
                 \* response.StatusCode of a nil response
                 /\ response' = NoResponse
                 /\ Panic("nilresp")
            [] o.res = "401" /\ variant = "oauth1" /\ tries + 1 = 1 ->
                 /\ response' = [nil |-> FALSE, id |-> Len(gets) + 1,
                                 body |-> TSBody(FALSE, 0, 0)]
                 /\ pc' = "reauth"
                 /\ failure' = failure
            [] OTHER ->
                 /\ response' = response
                 /\ Fatal("get")
  /\ UNCHANGED <<variant, pathSet, file0, endDate, weights, output, reauths,
                 registered, listeners, authFor, replies, call, auth>>

\* OAuth 1.0a: GetRequestTokenAndUrl, the prompt, AuthorizeToken
OAuth1Reauthorize ==
  /\ pc = "reauth"
  /\ auths' = auths + 1
  /\ reauths' = reauths + 1
  /\ \E dt \in Waits(now), step \in {"requestToken", "authorizeToken", "ok"} :
       /\ now' = now + dt
       /\ CASE step = "requestToken" ->
                 /\ Fatal("auth")
                 /\ UNCHANGED <<prompts, src>>
            [] step = "authorizeToken" ->
                 /\ prompts' = prompts + OAuth1Lines
                 /\ Fatal("auth")
                 /\ src' = src
            [] OTHER ->
                 /\ prompts' = prompts + OAuth1Lines
                 /\ src' = [src EXCEPT !.at = "new"]
                 /\ pc' = "tries"
                 /\ failure' = failure
  /\ UNCHANGED <<variant, pathSet, file, file0, tries, response, endDate, weights,
                 output, registered, listeners, authFor, gets, replies, last, call, auth>>

\* (variation for C5: the day is not subtracted)
FirstEndSameDay(first) == Parse(first)

\* endDate before the window loop: the first date parsed, less 24 hours
FirstEnd(first) == Parse(first) - BackDays * TicksPerDay

\* after the tries loop: decode the time series, stop without entries, parse
\* the first date and subtract a day
DecodeTimeSeries ==
  /\ pc = "tries"
  /\ tries >= MaxTries
  /\ CASE response.nil ->
            Panic("nilresp") /\ UNCHANGED <<endDate, gets>>
       [] ~response.body.dec ->
            /\ Fatal("decode")
            /\ gets' = [gets EXCEPT ![response.id].dec = "failed"]
            /\ endDate' = endDate
       [] OTHER ->
            /\ gets' = [gets EXCEPT ![response.id].dec = "ok"]
            /\ CASE response.body.n = 0 ->
                      pc' = "exit0" /\ failure' = failure /\ endDate' = endDate
                 [] response.body.first < 0 ->
                      Fatal("date") /\ endDate' = endDate
                 [] OTHER ->
                      /\ endDate' = FirstEnd(response.body.first)
                      /\ pc' = "loop"
                      /\ failure' = failure
  /\ UNCHANGED <<variant, now, pathSet, file, file0, src, tries, response, weights,
                 output, prompts, auths, reauths, registered, listeners, authFor,
                 replies, last, call, auth>>

\* (variation for C4: the loop goes on while endDate is not after now)
NotAfter(e, n) == e <= n

\* endDate.Before(time.Now())
Before(e, n) == e < n

\* decoder.Decode(&weights) of a decodable body: the slice is replaced when
\* the body has the key and is left as it is when it has not
Decode(b, w) == IF b.key THEN b.entries ELSE w

\* (variation for C1: the error is dropped and the loop goes on)
WindowFailContinue(why) ==
  /\ pc' = "loop"
  /\ failure' = failure
  /\ UNCHANGED <<weights, output, replies>>

\* if err != nil { log.Fatal(err) } after the window request and after the
\* decoding of its reply
WindowFail(why) ==
  /\ Fatal(why)
  /\ UNCHANGED <<weights, output, replies>>

\* one pass of the window loop: advance endDate, request, decode, print
WindowGet ==
  /\ pc = "loop"
  /\ Before(endDate, now)
  /\ endDate' = endDate + WindowDays * TicksPerDay
  /\ \E o \in Get :
       IF o.res # "resp"
       THEN /\ ApplyGet("window", Format(endDate'), o, "none")
            /\ WindowFail("get")
       ELSE \E b \in WBodies :
              /\ ApplyGet("window", Format(endDate'), o,
                          IF b.dec THEN "ok" ELSE "failed")
              /\ IF ~b.dec
                 THEN WindowFail("decode")
                 ELSE /\ weights' = Decode(b, weights)
                      /\ replies' = Append(replies, b)
                      /\ output' = output \o Lines(weights')
                      /\ IF FirstShort(weights', 1) # 0
                         THEN Panic("slice")
                         ELSE pc' = "loop" /\ failure' = failure
  /\ UNCHANGED <<variant, pathSet, file0, tries, response, reauths, registered,
                 listeners, authFor, call, auth>>

\* the loop condition fails: main returns
LoopExit ==
  /\ pc = "loop"
  /\ ~Before(endDate, now)
  /\ pc' = "done"
  /\ UNCHANGED <<variant, now, pathSet, file, file0, src, tries, response, endDate,
                 weights, output, prompts, auths, reauths, registered, listeners,
                 authFor, gets, replies, last, failure, call, auth>>

Next ==
  \/ Start
  \/ LoadToken
  \/ AuthorizeCall
  \/ AuthorizeReturn
  \/ Probe
  \/ TimeSeriesGet
  \/ OAuth1Reauthorize
  \/ DecodeTimeSeries
  \/ WindowGet
  \/ LoopExit

Spec == Init /\ [][Next]_vars

\* ------------------------------ FileTokenSource.Token as a function
\* the inputs of the calls: any cache file, CacheFile and AuthCode set or not
InitToken ==
  /\ variant = "filesrc"
  /\ pc = "token"
  /\ now = StartTick
  /\ pathSet = FALSE
  /\ file \in StartFiles
  /\ file0 = file
  /\ src = NoToken
  /\ tries = 0
  /\ response = NoResponse
  /\ endDate = 0
  /\ weights = <<>>
  /\ output = <<>>
  /\ prompts = 0
  /\ auths = 0
  /\ reauths = 0
  /\ registered = 0
  /\ listeners = 0
  /\ authFor = "none"
  /\ gets = <<>>
  /\ replies = <<>>
  /\ last = NoLast
  /\ failure = "none"
  /\ call = NoCall
  /\ auth = NoAuth

\* one call of src.Token() with the file and the clock as they are
TokenCall ==
  /\ pc = "token"
  /\ call.n < MaxCalls
  /\ \E ps \in BOOLEAN, acs \in BOOLEAN :
       \E o \in Token(file, now, ps, acs) :
         /\ call' = [n |-> call.n + 1, pathSet |-> ps, authCodeSet |-> acs,
                     before |-> file, at |-> now, out |-> o]
         /\ file' = o.file
         /\ now' = o.now
         /\ auths' = auths + (IF o.authCode THEN 1 ELSE 0)
         /\ prompts' = prompts + (IF o.authCode THEN AuthCodeLines ELSE 0)
  /\ UNCHANGED <<variant, pc, pathSet, file0, src, tries, response, endDate, weights,
                 output, reauths, registered, listeners, authFor, gets, replies,
                 last, failure, auth>>

NextToken == TokenCall

SpecToken == InitToken /\ [][NextToken]_vars

\* --------------------------------------- authorize, goroutine by goroutine
\* main is about to call authorize for the first time (the cache file is
\* missing); in Spec the same call is the pair AuthorizeCall, AuthorizeReturn
InitAuth ==
  /\ variant = "cacher"
  /\ pc = "authorize"
  /\ now = StartTick
  /\ pathSet \in BOOLEAN
  /\ file = Missing
  /\ file0 = file
  /\ src = NoToken
  /\ tries = 0
  /\ response = NoResponse
  /\ endDate = 0
  /\ weights = <<>>
  /\ output = <<>>
  /\ prompts = 0
  /\ auths = 0
  /\ reauths = 0
  /\ registered = 0
  /\ listeners = 0
  /\ authFor = "initial"
  /\ gets = <<>>
  /\ replies = <<>>
  /\ last = NoLast
  /\ failure = "none"
  /\ call = NoCall
  /\ auth = NoAuth

authFrame ==
  <<variant, pc, now, pathSet, file, file0, src, tries, response, endDate, weights,
    output, prompts, auths, reauths, registered, listeners, authFor, gets,
    replies, last, failure, call>>

\* a request reaches the listener and the handler starts: without a code it
\* answers 400 and returns, with one it goes on to conf.Exchange
Callback(h) ==
  /\ listeners > 0
  /\ auth.lpc = "serving"
  /\ auth.hs[h].pc = "idle"
  /\ \A g \in Handlers : g < h => auth.hs[g].pc # "idle"
  /\ \E code \in BOOLEAN :
       auth' = [auth EXCEPT !.hs[h] =
                  [@ EXCEPT !.code = code,
                            !.pc = IF code THEN "exchange" ELSE "done400"]]
  /\ UNCHANGED authFrame

\* conf.Exchange answers: the handler goes on to tokens <- tok or errors <- ...
ExchangeDone(h) ==
  /\ auth.hs[h].pc = "exchange"
  /\ \E ok \in BOOLEAN, t \in ServerTokens(now) :
       auth' = [auth EXCEPT !.hs[h] =
                  IF ok THEN [@ EXCEPT !.pc = "sendTok", !.exch = "ok", !.tok = t]
                  ELSE [@ EXCEPT !.pc = "sendErr", !.exch = "failed"]]
  /\ UNCHANGED authFrame

\* http.ListenAndServe returns (the port is taken, the listener breaks): the
\* goroutine goes on to errors <- err
ListenFail ==
  /\ listeners > 0
  /\ auth.lpc = "serving"
  /\ auth' = [auth EXCEPT !.lpc = "send"]
  /\ UNCHANGED authFrame

\* the select of authorize receives from a sender that is ready (the channels
\* are unbuffered: a send completes only here) and authorize returns
AuthorizeSelect ==
  /\ pc = "select"
  /\ \/ \E h \in Handlers :
          /\ auth.hs[h].pc \in {"sendTok", "sendErr"}
          /\ auth' = [auth EXCEPT
                        !.hs[h].pc = "done",
                        !.result = [kind |-> IF auth.hs[h].pc = "sendTok"
                                             THEN "token" ELSE "error",
                                    tok |-> auth.hs[h].tok, from |-> h]]
     \/ /\ auth.lpc = "send"
        /\ auth' = [auth EXCEPT
                      !.lpc = "done",
                      !.result = [kind |-> "error", tok |-> NoToken, from |-> 0]]
  /\ pc' = "returned"
  /\ UNCHANGED <<variant, now, pathSet, file, file0, src, tries, response, endDate,
                 weights, output, prompts, auths, reauths, registered, listeners,
                 authFor, gets, replies, last, failure, call>>

NextAuth ==
  \/ AuthorizeCall
  \/ \E h \in Handlers : Callback(h)
  \/ \E h \in Handlers : ExchangeDone(h)
  \/ ListenFail
  \/ AuthorizeSelect

SpecAuth == InitAuth /\ [][NextAuth]_vars


\* ================================================================== claims
Ended == pc \in {"done", "exit0", "fatal", "panic"}

\* the GET recorded at i failed: the request or the decoding of its reply
Failed(i) == gets[i].res # "resp" \/ gets[i].dec = "failed"

\* nothing happened after the GET recorded at i: it is the last one, the
\* process has ended abnormally, and no line was printed since
Stopped(i) ==
  /\ i = Len(gets)
  /\ pc \in {"fatal", "panic"}
  /\ Len(output) = gets[i].out
  /\ prompts = gets[i].pr
  /\ auths = gets[i].au

\* the first request failed because of the token: errExpiredToken from the
\* probe request (backup.go), a 401 on the first try (OAuth 1.0a)
TokenFailure(i) ==
  \/ variant = "cacher" /\ i = 1 /\ gets[i].kind = "probe" /\ gets[i].res = "expired"
  \/ variant = "oauth1" /\ i = 1 /\ gets[i].kind = "ts" /\ gets[i].res = "401"

\* C1 as stated: every failed GET, and every failed decoding of a reply, ends
\* the process: no further request is issued and no further line is printed.
C1_AnyFailureEnds ==
  \A i \in 1..Len(gets) : Failed(i) => Stopped(i)

\* C1 as amended: every failed GET or failed decoding ends the process with
\* no further request and no further line, except a first request that
\* failed because of the token, which starts the re-authorization.
C1_FailureEnds ==
  \A i \in 1..Len(gets) : (Failed(i) /\ ~TokenFailure(i)) => Stopped(i)

\* C1 witness: a window request, or the decoding of its reply, failed after
\* lines had been printed.
C1_Witness ==
  /\ Len(gets) >= 2
  /\ gets[Len(gets)].kind = "window"
  /\ Failed(Len(gets))
  /\ output # <<>>

\* C2: in backup.go and the OAuth 1.0a variant a re-authorization is started
\* at most once, only after the first request failed because of the token;
\* any other failed request ends the process with no authorization started
\* after it; a failed re-authorization ends the process with no further
\* request.
C2_ReauthorizeOnce ==
  variant \in {"cacher", "oauth1"} =>
    /\ reauths <= 1
    /\ (reauths = 1 \/ (pc \in {"authorize", "select", "reauth"} /\ authFor # "initial"))
         => (Len(gets) >= 1 /\ TokenFailure(1))
    /\ \A i \in 1..Len(gets) :
         (gets[i].res # "resp" /\ ~TokenFailure(i)) => Stopped(i)
    /\ (reauths = 1 /\ failure \in {"auth", "register"})
         => (pc \in {"fatal", "panic"} /\ Len(gets) = 1)

\* C2 witness: the re-authorization was made and the request after it failed.
C2_Witness ==
  /\ variant \in {"cacher", "oauth1"}
  /\ reauths = 1
  /\ Len(gets) >= 2
  /\ gets[2].res # "resp"
  /\ pc = "fatal"


\* the lines of the entries contained in the replies rs, in order
RECURSIVE EntryLines(_)
EntryLines(rs) ==
  IF rs = <<>> THEN <<>>
  ELSE LET b == rs[Len(rs)]
       IN  EntryLines(SubSeq(rs, 1, Len(rs) - 1))
             \o [i \in 1..Len(b.entries) |-> Line(b.entries[i])]

\* C3 as stated: once the k-th window reply has been processed, the lines
\* printed are the lines of the entries contained in replies 1..k, in request
\* order and reply order, and nothing else.
C3_OutputIsReplies ==
  pc \in {"loop", "done"} => output = EntryLines(replies)

\* the window requests issued, and the first date of the time series
Windows == SelectSeq(gets, LAMBDA g : g.kind = "window")
FirstDate == response.body.first
WindowTicks == WindowDays * TicksPerDay
Ceil(a, b) == (a + b - 1) \div b

\* C4: when the loop has ended with no request failing, the number of window
\* requests is ceil((now - (D - 1 day)) / 30 days) if D - 1 day is before now
\* and zero otherwise (now: the clock when the loop condition failed); every
\* requested end date but the last is before now, the last is on or after now
\* and less than 30 days after it. While the loop runs the count never
\* exceeds that number.
C4_WindowCount ==
  pc \in {"loop", "done"} =>
    LET start == Parse(FirstDate) - BackDays * TicksPerDay
        k == Len(Windows)
        n == IF start < now THEN Ceil(now - start, WindowTicks) ELSE 0
    IN  /\ k <= n
        /\ pc = "done" =>
             /\ k = n
             /\ \A i \in 1..k :
                  IF i < k THEN Parse(Windows[i].date) < now
                  ELSE /\ Parse(Windows[i].date) >= now
                       /\ Parse(Windows[i].date) < now + WindowTicks

\* C4 witness: the loop has ended after three requests, the last end date after now.
C4_Witness ==
  /\ pc = "done"
  /\ Len(Windows) = 3
  /\ Parse(Windows[3].date) > now

\* C5: the requested end dates are D + 29 days, D + 59 days, ..., 30 days
\* apart, and when the loop has ended every day from D through the current
\* day lies in the 30 days that end with one of them.
C5_NoDayMissed ==
  pc \in {"loop", "done"} =>
    /\ \A i \in 1..Len(Windows) :
         Windows[i].date = FirstDate + (WindowDays - 1) + (i - 1) * WindowDays
    /\ pc = "done" =>
         \A d \in FirstDate..Format(now) :
           \E i \in 1..Len(Windows) :
             Windows[i].date - (WindowDays - 1) <= d /\ d <= Windows[i].date

\* C5 witness: the loop has ended and the days from D through the current
\* day span more than one window.
C5_Witness ==
  /\ pc = "done"
  /\ Len(Windows) >= 2
  /\ Format(now) - FirstDate >= WindowDays


\* the run started with the cache file holding a valid token
CachedValid0 ==
  /\ variant \in {"cacher", "filesrc"}
  /\ pathSet
  /\ file0.kind = "token"
  /\ Valid(file0.tok, StartTick)

C7_CacheFollowsToken ==
  (variant = "cacher" /\ last.res = "resp" /\ last.post) =>
    /\ file.kind = "token"
    /\ file.tok.at = src.at
    /\ file.tok.rt = src.rt

\* C7 witness: the token was renewed during the run and RoundTrip wrote the
\* new one over the cached one.
C7_Witness ==
  /\ variant = "cacher"
  /\ last.res = "resp"
  /\ last.post
  /\ last.wrote
  /\ file0.kind = "token"
  /\ auths = 0
  /\ file.tok # file0.tok

\* C8: in backup.go the handler for "/" is registered at most once and the
\* listener is started at most once.
C8_OneListener ==
  variant = "cacher" => (registered <= 1 /\ listeners <= 1)

\* C8 witness: the cache file was missing, authorize ran, the probe request
\* reported an expired token and authorize was called again.
C8_Witness ==
  /\ variant = "cacher"
  /\ file0.kind = "missing"
  /\ auths = 2
  /\ reauths = 1
  /\ Len(gets) = 1
  /\ gets[1].res = "expired"

\* the call found no valid cached token
CallNoValidCached ==
  \/ ~call.pathSet
  \/ call.before.kind # "token"
  \/ ~Valid(call.before.tok, call.at)

\* the call neither asked for a code, nor exchanged one, nor wrote the file
CallDidNothing ==
  /\ ~call.out.authCode
  /\ ~call.out.exchange
  /\ ~call.out.wrote
  /\ call.out.file = call.before

\* C9: Token returns ErrNoAuthCode exactly when it finds no valid cached
\* token and AuthCode is nil, and then exchanges and writes nothing; a valid
\* cached token is returned without AuthCode, exchange or write.
C9_ErrNoAuthCode ==
  call.n > 0 =>
    /\ (call.out.res = "ErrNoAuthCode") <=> (CallNoValidCached /\ ~call.authCodeSet)
    /\ call.out.res = "ErrNoAuthCode" => CallDidNothing
    /\ ~CallNoValidCached =>
         /\ call.out.res = "token"
         /\ call.out.tok = call.before.tok
         /\ CallDidNothing

\* C9 witness: a call with an expired cached token and no AuthCode, after a
\* call that exchanged a code and wrote the file.
C9_Witness ==
  /\ call.n = 2
  /\ call.out.res = "ErrNoAuthCode"
  /\ call.pathSet
  /\ call.before.kind = "token"
  /\ call.before # file0

\* the time-series requests of the tries loop
TsGets == SelectSeq(gets, LAMBDA g : g.kind = "ts")

\* C10 as stated: the tries loop issues the request at most twice, the second
\* time only when the first attempt did not succeed, and the reply decoded is
\* the reply of the last request issued.
C10_RetryOnly ==
  /\ Len(TsGets) <= MaxTries
  /\ Len(TsGets) = 2 => TsGets[1].res # "resp"
  /\ pc \in {"exit0", "loop", "done"} =>
       (response.id = Len(gets) - Len(Windows) /\ gets[response.id].kind = "ts")


\* C11: a RoundTrip (one GET of backup.go) leaves the cache file as it was
\* when reading it fails other than by not-exist (an error, nothing sent),
\* when the token lookup before the request fails (errExpiredToken, nothing
\* sent), when the request fails, when the lookup after the request fails
\* (the response is returned), and when the cached token has the access and
\* refresh tokens of the current one; the file changes only by the write of
\* a token that differs from the cached one.
C11_FileUnchanged ==
  [][ (variant = "cacher" /\ Len(gets') = Len(gets) + 1) =>
        LET same == /\ file.kind = "token"
                    /\ file.tok.at = src'.at
                    /\ file.tok.rt = src'.rt
            sent == last'.used # ""
        IN  /\ file.kind \in {"unreadable", "garbage"}
                 => (last'.res = "err" /\ ~sent /\ file' = file)
            /\ last'.res = "expired" => (~sent /\ file' = file)
            /\ (last'.res = "err" /\ ~last'.post) => file' = file
            /\ (last'.res = "resp" /\ ~last'.post) => (sent /\ file' = file)
            /\ (last'.post /\ same) => (~last'.wrote /\ file' = file)
            /\ ~last'.wrote => file' = file
            /\ file' # file => (last'.post /\ last'.wrote /\ ~same)
    ]_vars

\* C11 witness: a request was answered, the token lookup after it failed,
\* the response was returned and the file is the one of the start.
C11_Witness ==
  /\ variant = "cacher"
  /\ last.res = "resp"
  /\ ~last.post
  /\ last.used # ""
  /\ file0.kind = "token"
  /\ file = file0

\* the sends of authorize's goroutines that a receive has completed
SendsDone ==
  Cardinality({h \in Handlers : auth.hs[h].pc = "done"})
    + (IF auth.lpc = "done" THEN 1 ELSE 0)

\* the part of C12 about the result: authorize returns exactly when one send
\* has completed and never a second one does; a token comes from a handler
\* whose request carried a code and whose exchange succeeded, an error from a
\* handler whose exchange failed or from the listener; a request without a
\* code ends in the 400 answer and sends nothing
C12_ResultDelivered ==
  /\ (pc = "returned") <=> (auth.result.kind # "none")
  /\ SendsDone = (IF pc = "returned" THEN 1 ELSE 0)
  /\ auth.result.kind = "token" =>
       /\ auth.result.from \in Handlers
       /\ LET hd == auth.hs[auth.result.from]
          IN  hd.pc = "done" /\ hd.code /\ hd.exch = "ok" /\ hd.tok = auth.result.tok
  /\ auth.result.kind = "error" =>
       \/ auth.result.from = 0 /\ auth.lpc = "done"
       \/ /\ auth.result.from \in Handlers
          /\ LET hd == auth.hs[auth.result.from]
             IN  hd.pc = "done" /\ hd.code /\ hd.exch = "failed"
  /\ \A h \in Handlers :
       /\ auth.hs[h].pc = "done400" <=> (auth.hs[h].pc # "idle" /\ ~auth.hs[h].code)
       /\ auth.hs[h].pc \in {"sendTok", "sendErr", "done"} => auth.hs[h].code

\* C12: authorize returns exactly one result, the first one delivered, a token
\* only after a callback with a code whose exchange succeeded, an error only
\* after a failed exchange or a listener failure, a callback without a code is
\* answered with 400 and leaves authorize waiting; and every invocation of the
\* callback handler runs to completion, also one that arrives after authorize
\* has returned: once authorize has returned, no handler stands at a channel
\* send (nothing receives from tokens or errors any more, so a handler that
\* stands there never completes)
C12_Authorize ==
  /\ C12_ResultDelivered
  /\ pc = "returned" =>
       \A h \in Handlers : auth.hs[h].pc \notin {"sendTok", "sendErr"}

====
